---- MODULE Spec2Model ----
(***************************************************************************)
(* json_to_excel.py: main() loads a JSON document, process_json_data()     *)
(* flattens it into rows, create_excel_file() writes the rows.             *)
(*                                                                         *)
(* A JSON value is a record [t, v]: t is its Python type, v its payload.   *)
(* A dict's payload is a function from keys to values, a list's payload a  *)
(* sequence of values, a number's payload its numeral.                     *)
(***************************************************************************)
EXTENDS Integers, Sequences, FiniteSets, TLC

VARIABLES input_file, pc, json_data, items, item_idx, high_order_texts,
          reasonings, hot_idx, hot, lot_idx, rows, used_publication_ids,
          processed_data, output_file, exit_code, error

vars == <<input_file, pc, json_data, items, item_idx, high_order_texts,
          reasonings, hot_idx, hot, lot_idx, rows, used_publication_ids,
          processed_data, output_file, exit_code, error>>

----------------------------------------------------------------------------
(* Python values *)

S(s) == [t |-> "str", v |-> s]
N(n) == [t |-> "num", v |-> n]
L(q) == [t |-> "list", v |-> q]
D(f) == [t |-> "dict", v |-> f]
None == [t |-> "null", v |-> ""]

\* bool(x)
Truthy(x) ==
    CASE x.t = "str" -> x.v # ""
      [] x.t = "num" -> x.v # "0"
      [] x.t = "null" -> FALSE
      [] x.t = "list" -> Len(x.v) > 0
      [] x.t = "dict" -> DOMAIN x.v # {}

\* a == b
PyEq(a, b) == a.t = b.t /\ a.v = b.v

\* str(x); the repr of a container only has to start with its bracket
PyStr(x) ==
    CASE x.t = "str" -> x.v
      [] x.t = "num" -> x.v
      [] x.t = "null" -> "None"
      [] x.t = "list" -> "[...]"
      [] x.t = "dict" -> "{...}"

\* s.startswith(p)
StartsWith(s, p) == Len(s) >= Len(p) /\ SubSeq(s, 1, Len(p)) = p

\* sub in s, both strings
Substring(sub, s) ==
    \E b \in 1..(Len(s) - Len(sub) + 1) : SubSeq(s, b, b + Len(sub) - 1) = sub

\* d.get(key, default), d a dict
Get(d, key, default) == IF key \in DOMAIN d.v THEN d.v[key] ELSE default

\* iter(x) succeeds
Iterable(x) == x.t \in {"list", "str", "dict"}

RECURSIVE KeySeq(_)
KeySeq(ks) ==
    IF ks = {} THEN <<>>
    ELSE LET k == CHOOSE k \in ks : TRUE IN <<S(k)>> \o KeySeq(ks \ {k})

\* what `for e in x` yields: a list's elements, a string's characters,
\* a dict's keys
IterSeq(x) ==
    CASE x.t = "list" -> x.v
      [] x.t = "str" -> [c \in 1..Len(x.v) |-> S(SubSeq(x.v, c, c))]
      [] x.t = "dict" -> KeySeq(DOMAIN x.v)

\* ', '.join(q), q a sequence of str values
RECURSIVE Join(_)
Join(q) ==
    IF Len(q) = 0 THEN ""
    ELSE IF Len(q) = 1 THEN q[1].v
    ELSE q[1].v \o ", " \o Join(Tail(q))

----------------------------------------------------------------------------
(* The input documents *)

\* A document has at most MaxEntries entries: its low-order entries and
\* reasoning entries count one each, as does a payload mapping around the
\* items; a high-order entry without low-order entries, an item without
\* high-order entries and a non-sequence value count two each.
MaxEntries == 3

\* the fields of a high-order entry, low_order_texts apart
HighVariants ==
    { [paragraph_ID |-> S("P1"), publication_ID |-> S("7"),
       text |-> S("T1"), tags |-> L(<<S("x"), S("y")>>)] }

LowVariants ==
    { D([paragraph_ID |-> S("L1"), publication_ID |-> S("7"),
         text |-> S("t1"), similarity_score |-> N("0.9")]),
      D([paragraph_ID |-> S("L2"), publication_ID |-> S("7"),
         text |-> S("t2"), tag |-> S("CONF-42")]),
      D([paragraph_ID |-> S("L3"), publication_ID |-> N("7"),
         text |-> S("t3"), tag |-> S("x")]),
      D([paragraph_ID |-> S("L4"), publication_ID |-> S(""),
         text |-> S("t4")]) }

ReasoningVariants ==
    { D([publication_ID |-> S("7"), reasoning |-> S("because")]),
      D([publication_ID |-> S("7"), reasoning |-> S("other")]),
      D([publication_ID |-> S(""), reasoning |-> S("empty")]) }

\* values that are not a sequence, for a field the code iterates
NonSequences == {S(""), S("ab"), D(<<>>), N("5")}

\* The shape of a high-order entry: the number n of its low-order entries;
\* with none, low_order_texts is empty (bad = None) or the non-sequence bad.
HotShapes(b) ==
    {[n |-> m, bad |-> None] : m \in 1..b}
    \cup (IF b < 2 THEN {}
          ELSE {[n |-> 0, bad |-> x] : x \in NonSequences \cup {None}})

HotShapeCost(h) ==
    IF h.n = 0 THEN 2 ELSE h.n

RECURSIVE HotShapeSeqs(_)
HotShapeSeqs(b) ==
    {<<>>} \cup UNION {{<<h>> \o rest : rest \in HotShapeSeqs(b - HotShapeCost(h))} :
                         h \in HotShapes(b)}

RECURSIVE NumLots(_)
NumLots(hs) == IF Len(hs) = 0 THEN 0 ELSE Head(hs).n + NumLots(Tail(hs))

RECURSIVE HotSeqCost(_)
HotSeqCost(hs) ==
    IF Len(hs) = 0 THEN 0 ELSE HotShapeCost(Head(hs)) + HotSeqCost(Tail(hs))

\* The shape of an item: the shapes hs of its high-order entries, or the
\* non-sequence bad that high_order_text holds, and the number nr of its
\* reasoning entries (none when it has no high-order entry).
ItemShapes(b) ==
    UNION {{[hs |-> hs, bad |-> None, nr |-> r] : r \in 0..(b - HotSeqCost(hs))} :
             hs \in HotShapeSeqs(b) \ {<<>>}}
    \cup (IF b < 2 THEN {}
          ELSE {[hs |-> <<>>, bad |-> x, nr |-> 0] : x \in NonSequences \cup {None}})

ItemShapeCost(it) ==
    IF Len(it.hs) = 0 THEN 2 ELSE HotSeqCost(it.hs) + it.nr

RECURSIVE DocShapes(_)
DocShapes(b) ==
    {<<>>} \cup UNION {{<<it>> \o rest : rest \in DocShapes(b - ItemShapeCost(it))} :
                         it \in ItemShapes(b)}

RECURSIVE HotsIn(_)
HotsIn(shape) == IF Len(shape) = 0 THEN 0 ELSE Len(Head(shape).hs) + HotsIn(Tail(shape))

RECURSIVE LotsIn(_)
LotsIn(shape) == IF Len(shape) = 0 THEN 0 ELSE NumLots(Head(shape).hs) + LotsIn(Tail(shape))

RECURSIVE ReasoningsIn(_)
ReasoningsIn(shape) == IF Len(shape) = 0 THEN 0 ELSE Head(shape).nr + ReasoningsIn(Tail(shape))

MkHot(hv, low_order_texts) ==
    IF low_order_texts.t = "list" /\ Len(low_order_texts.v) = 0
    THEN D(hv)
    ELSE D([low_order_texts |-> low_order_texts] @@ hv)

MkItem(high_order_text, rs) ==
    IF Len(rs) = 0 THEN D([high_order_text |-> high_order_text])
    ELSE D([high_order_text |-> high_order_text, reasonings |-> L(rs)])

\* The items of a shape: its n-th high-order entry has the fields hv[n], its
\* n-th low-order entry is lv[n], its n-th reasoning entry is rv[n].
FillShape(shape, hv, lv, rv) ==
    [a \in 1..Len(shape) |->
        LET it == shape[a]
            before == SubSeq(shape, 1, a - 1)
        IN  MkItem(
              IF it.bad.t # "null" THEN it.bad
              ELSE L([b \in 1..Len(it.hs) |->
                        LET h == it.hs[b]
                            lots0 == LotsIn(before) + NumLots(SubSeq(it.hs, 1, b - 1))
                        IN  MkHot(hv[HotsIn(before) + b],
                                  IF h.bad.t # "null" THEN h.bad
                                  ELSE L([c \in 1..h.n |-> lv[lots0 + c]]))]),
              [c \in 1..it.nr |-> rv[ReasoningsIn(before) + c]])]

\* the root shapes that hold a sequence of items
ListRoots(its) == {L(its)} \cup (IF Len(its) = 1 THEN {its[1]} ELSE {})

PayloadRoot(its) == D([payload |-> D([results |-> L(its)])])

\* roots of any other shape
OddRoots ==
    { N("42"), S("abc"), None, L(<<N("1")>>),
      D([payload |-> N("42")]),
      D([payload |-> None]),
      D([payload |-> S("abc")]),
      D([payload |-> S("no results here")]),
      D([payload |-> L(<<>>)]),
      D([payload |-> L(<<S("results")>>)]),
      D([payload |-> D(<<>>)]),
      D([payload |-> D([results |-> S("")])]),
      D([payload |-> D([results |-> D(<<>>)])]),
      D([payload |-> D([results |-> D([high_order_text |-> L(<<>>)])])]),
      D([payload |-> D([results |-> N("5")])]) }

\* the input file: missing, not JSON, or a JSON document
InputFile(f) ==
    \/ f = [state |-> "missing", data |-> None]
    \/ f = [state |-> "invalid", data |-> None]
    \/ \E d \in OddRoots : f = [state |-> "json", data |-> d]
    \/ \E shape \in DocShapes(MaxEntries) :
         \E hv \in [1..HotsIn(shape) -> HighVariants],
            lv \in [1..LotsIn(shape) -> LowVariants],
            rv \in [1..ReasoningsIn(shape) -> ReasoningVariants] :
           \E d \in ListRoots(FillShape(shape, hv, lv, rv)) :
              f = [state |-> "json", data |-> d]
    \/ \E shape \in DocShapes(MaxEntries - 1) :
         \E hv \in [1..HotsIn(shape) -> HighVariants],
            lv \in [1..LotsIn(shape) -> LowVariants],
            rv \in [1..ReasoningsIn(shape) -> ReasoningVariants] :
           f = [state |-> "json", data |-> PayloadRoot(FillShape(shape, hv, lv, rv))]

----------------------------------------------------------------------------
(* process_json_data and main *)

Columns == {"Text Type", "Paragraph ID", "Publication ID", "Task Text", "Tag",
            "Similarity Score", "Reasonings"}

Row(text_type, paragraph_id, publication_id, task_text, tag, score, reasoning) ==
    [c \in Columns |->
        CASE c = "Text Type" -> text_type
          [] c = "Paragraph ID" -> paragraph_id
          [] c = "Publication ID" -> publication_id
          [] c = "Task Text" -> task_text
          [] c = "Tag" -> tag
          [] c = "Similarity Score" -> score
          [] c = "Reasonings" -> reasoning]

\* 'results' in payload
HasResults(payload) ==
    CASE payload.t = "dict" -> "results" \in DOMAIN payload.v
      [] payload.t = "list" ->
            \E n \in 1..Len(payload.v) : PyEq(payload.v[n], S("results"))
      [] payload.t = "str" -> Substring("results", payload.v)

\* the last branch takes no items instead of exiting
ResolveRoot_NoExit(data) ==
    IF data.t = "dict" /\ "payload" \in DOMAIN data.v
    THEN LET payload == data.v["payload"] IN
         IF payload.t \notin {"dict", "list", "str"}
         THEN [err |-> "TypeError", items |-> None]
         ELSE IF HasResults(payload)
         THEN IF payload.t = "dict"
              THEN [err |-> "none", items |-> payload.v["results"]]
              ELSE [err |-> "TypeError", items |-> None]
         ELSE [err |-> "none", items |-> L(<<data>>)]
    ELSE IF data.t = "list" THEN [err |-> "none", items |-> data]
    ELSE IF data.t = "dict" THEN [err |-> "none", items |-> L(<<data>>)]
    ELSE [err |-> "none", items |-> L(<<>>)]

\* the root structure: the items, or the way the resolution fails
ResolveRoot(data) ==
    IF data.t = "dict" /\ "payload" \in DOMAIN data.v
    THEN LET payload == data.v["payload"] IN
         IF payload.t \notin {"dict", "list", "str"}
         THEN [err |-> "TypeError", items |-> None]
         ELSE IF HasResults(payload)
         THEN IF payload.t = "dict"
              THEN [err |-> "none", items |-> payload.v["results"]]
              ELSE [err |-> "TypeError", items |-> None]
         ELSE [err |-> "none", items |-> L(<<data>>)]
    ELSE IF data.t = "list" THEN [err |-> "none", items |-> data]
    ELSE IF data.t = "dict" THEN [err |-> "none", items |-> L(<<data>>)]
    ELSE [err |-> "UnsupportedStructure", items |-> None]

\* the tags can be joined: an iterable of str
Joinable(tags) ==
    /\ Iterable(tags)
    /\ \A n \in 1..Len(IterSeq(tags)) : IterSeq(tags)[n].t = "str"

high_order_row(h) ==
    Row(S("High-Order Text"),
        Get(h, "paragraph_ID", S("")),
        Get(h, "publication_ID", S("")),
        Get(h, "text", S("")),
        S(Join(IterSeq(Get(h, "tags", L(<<>>))))),
        S("N/A"),
        S(""))

\* the scan without the break: the last entry that matches wins
RECURSIVE ScanReasonings_Last(_, _)
ScanReasonings_Last(q, publication_id) ==
    IF Len(q) = 0 THEN [err |-> "none", text |-> None]
    ELSE IF Head(q).t # "dict" THEN [err |-> "AttributeError", text |-> None]
    ELSE LET rest == ScanReasonings_Last(Tail(q), publication_id) IN
         IF rest.err # "none" THEN rest
         ELSE IF /\ PyEq(Get(Head(q), "publication_ID", None), publication_id)
                 /\ \A n \in 1..Len(Tail(q)) :
                       ~PyEq(Get(Tail(q)[n], "publication_ID", None), publication_id)
         THEN [err |-> "none", text |-> Get(Head(q), "reasoning", None)]
         ELSE rest

\* the scan of the reasonings for publication_id: the reasoning of the first
\* entry that matches, None when there is none
RECURSIVE ScanReasonings(_, _)
ScanReasonings(q, publication_id) ==
    IF Len(q) = 0 THEN [err |-> "none", text |-> None]
    ELSE IF Head(q).t # "dict" THEN [err |-> "AttributeError", text |-> None]
    ELSE IF PyEq(Get(Head(q), "publication_ID", None), publication_id)
    THEN [err |-> "none", text |-> Get(Head(q), "reasoning", None)]
    ELSE ScanReasonings(Tail(q), publication_id)

\* the used set is not looked at
FirstOccurrence_IgnoreUsed(publication_id, used) == Truthy(publication_id)

\* publication_id and publication_id not in used
FirstOccurrence(publication_id, used) ==
    Truthy(publication_id) /\ publication_id \notin used

\* the reasoning of a low-order entry, and the used set after it
AssignReasoning(publication_id, used, rs) ==
    IF ~FirstOccurrence(publication_id, used)
    THEN [err |-> "none", text |-> None, used |-> used]
    ELSE IF ~Iterable(rs)
    THEN [err |-> "TypeError", text |-> None, used |-> used]
    ELSE LET scan == ScanReasonings(IterSeq(rs), publication_id) IN
         [err |-> scan.err, text |-> scan.text,
          used |-> used \cup {publication_id}]

\* tag and str(tag).startswith("CONF-")
IsConf(tag) == Truthy(tag) /\ StartsWith(PyStr(tag), "CONF-")

DefaultTag(h) == S("INCON-" \o PyStr(Get(h, "paragraph_ID", S(""))))

\* the CONF- row without its reasoning
low_order_row_NoReasoning(h, lot, reasoning_text) ==
    LET tag == Get(lot, "tag", DefaultTag(h)) IN
    IF IsConf(tag)
    THEN Row(None, None, None, None, tag, None, None)
    ELSE Row(S("Low-Order Text"),
             Get(lot, "paragraph_ID", S("")),
             Get(lot, "publication_ID", S("")),
             Get(lot, "text", S("")),
             tag,
             Get(lot, "similarity_score", S("")),
             reasoning_text)

low_order_row(h, lot, reasoning_text) ==
    LET tag == Get(lot, "tag", DefaultTag(h)) IN
    IF IsConf(tag)
    THEN Row(None, None, None, None, tag, None, reasoning_text)
    ELSE Row(S("Low-Order Text"),
             Get(lot, "paragraph_ID", S("")),
             Get(lot, "publication_ID", S("")),
             Get(lot, "text", S("")),
             tag,
             Get(lot, "similarity_score", S("")),
             reasoning_text)

\* rows.append(high_order_row)
AppendHighOrder(rs, h) == Append(rs, high_order_row(h))

\* the row put in front of the rows
AppendLowOrder_Front(rs, h, lot, reasoning_text) ==
    <<low_order_row(h, lot, reasoning_text)>> \o rs

\* no row for a CONF- entry
AppendLowOrder_SkipConf(rs, h, lot, reasoning_text) ==
    IF IsConf(Get(lot, "tag", DefaultTag(h))) THEN rs
    ELSE Append(rs, low_order_row(h, lot, reasoning_text))

\* rows.append(low_order_row), on either branch
AppendLowOrder(rs, h, lot, reasoning_text) ==
    Append(rs, low_order_row(h, lot, reasoning_text))

Init ==
    /\ InputFile(input_file)
    /\ pc = "load"
    /\ json_data = None
    /\ items = None
    /\ item_idx = 1
    /\ high_order_texts = None
    /\ reasonings = None
    /\ hot_idx = 1
    /\ hot = None
    /\ lot_idx = 1
    /\ rows = <<>>
    /\ used_publication_ids = {}
    /\ processed_data = <<>>
    /\ output_file = "absent"
    /\ exit_code = -1
    /\ error = "none"

\* exit(1), or an exception that nothing catches
Exit(e) ==
    /\ pc' = "exit"
    /\ error' = e
    /\ exit_code' = 1

load_json_data ==
    /\ pc = "load"
    /\ IF input_file.state = "missing"
       THEN Exit("FileNotFoundError") /\ UNCHANGED json_data
       ELSE IF input_file.state = "invalid"
       THEN Exit("JSONDecodeError") /\ UNCHANGED json_data
       ELSE /\ json_data' = input_file.data
            /\ pc' = "process"
            /\ UNCHANGED <<error, exit_code>>
    /\ UNCHANGED <<input_file, items, item_idx, high_order_texts, reasonings,
                   hot_idx, hot, lot_idx, rows, used_publication_ids,
                   processed_data, output_file>>

BeginProcess ==
    /\ pc = "process"
    /\ rows' = <<>>
    /\ used_publication_ids' = {}
    /\ LET r == ResolveRoot(json_data) IN
       IF r.err # "none"
       THEN Exit(r.err) /\ UNCHANGED <<items, item_idx>>
       ELSE /\ items' = r.items
            /\ item_idx' = 1
            /\ pc' = "items"
            /\ UNCHANGED <<error, exit_code>>
    /\ UNCHANGED <<input_file, json_data, high_order_texts, reasonings,
                   hot_idx, hot, lot_idx, processed_data, output_file>>

NextItem ==
    /\ pc = "items"
    /\ IF ~Iterable(items)
       THEN Exit("TypeError")
            /\ UNCHANGED <<item_idx, high_order_texts, reasonings, hot_idx>>
       ELSE IF item_idx > Len(IterSeq(items))
       THEN /\ pc' = "return"
            /\ UNCHANGED <<item_idx, high_order_texts, reasonings, hot_idx,
                           error, exit_code>>
       ELSE LET item == IterSeq(items)[item_idx] IN
            IF item.t # "dict"
            THEN Exit("AttributeError")
                 /\ UNCHANGED <<item_idx, high_order_texts, reasonings, hot_idx>>
            ELSE /\ high_order_texts' = Get(item, "high_order_text", L(<<>>))
                 /\ reasonings' = Get(item, "reasonings", L(<<>>))
                 /\ item_idx' = item_idx + 1
                 /\ hot_idx' = 1
                 /\ pc' = "hots"
                 /\ UNCHANGED <<error, exit_code>>
    /\ UNCHANGED <<input_file, json_data, items, hot, lot_idx, rows,
                   used_publication_ids, processed_data, output_file>>

NextHot ==
    /\ pc = "hots"
    /\ IF ~Iterable(high_order_texts)
       THEN Exit("TypeError") /\ UNCHANGED <<hot_idx, hot, lot_idx, rows>>
       ELSE IF hot_idx > Len(IterSeq(high_order_texts))
       THEN /\ pc' = "items"
            /\ UNCHANGED <<hot_idx, hot, lot_idx, rows, error, exit_code>>
       ELSE LET h == IterSeq(high_order_texts)[hot_idx] IN
            IF h.t # "dict"
            THEN Exit("AttributeError") /\ UNCHANGED <<hot_idx, hot, lot_idx, rows>>
            ELSE IF ~Joinable(Get(h, "tags", L(<<>>)))
            THEN Exit("TypeError") /\ UNCHANGED <<hot_idx, hot, lot_idx, rows>>
            ELSE /\ rows' = AppendHighOrder(rows, h)
                 /\ hot' = h
                 /\ hot_idx' = hot_idx + 1
                 /\ lot_idx' = 1
                 /\ pc' = "lots"
                 /\ UNCHANGED <<error, exit_code>>
    /\ UNCHANGED <<input_file, json_data, items, item_idx, high_order_texts,
                   reasonings, used_publication_ids, processed_data, output_file>>

NextLot ==
    /\ pc = "lots"
    /\ LET low_order_texts == Get(hot, "low_order_texts", L(<<>>)) IN
       IF ~Iterable(low_order_texts)
       THEN Exit("TypeError") /\ UNCHANGED <<lot_idx, rows, used_publication_ids>>
       ELSE IF lot_idx > Len(IterSeq(low_order_texts))
       THEN /\ pc' = "hots"
            /\ UNCHANGED <<lot_idx, rows, used_publication_ids, error, exit_code>>
       ELSE LET lot == IterSeq(low_order_texts)[lot_idx] IN
            IF lot.t # "dict"
            THEN Exit("AttributeError")
                 /\ UNCHANGED <<lot_idx, rows, used_publication_ids>>
            ELSE LET publication_id == Get(lot, "publication_ID", S(""))
                     a == AssignReasoning(publication_id, used_publication_ids,
                                          reasonings)
                 IN  IF Truthy(publication_id) /\ publication_id.t \in {"list", "dict"}
                     THEN Exit("TypeError")
                          /\ UNCHANGED <<lot_idx, rows, used_publication_ids>>
                     ELSE IF a.err # "none"
                     THEN Exit(a.err)
                          /\ UNCHANGED <<lot_idx, rows, used_publication_ids>>
                     ELSE /\ used_publication_ids' = a.used
                          /\ rows' = AppendLowOrder(rows, hot, lot, a.text)
                          /\ lot_idx' = lot_idx + 1
                          /\ UNCHANGED <<pc, error, exit_code>>
    /\ UNCHANGED <<input_file, json_data, items, item_idx, high_order_texts,
                   reasonings, hot_idx, hot, processed_data, output_file>>

ReturnRows ==
    /\ pc = "return"
    /\ processed_data' = rows
    /\ pc' = "export"
    /\ UNCHANGED <<input_file, json_data, items, item_idx, high_order_texts,
                   reasonings, hot_idx, hot, lot_idx, rows, used_publication_ids,
                   output_file, exit_code, error>>

\* create_excel_file writes the rows with to_excel, then format_excel_file
\* loads, styles and saves the same file; main returns after it
create_excel_file ==
    /\ pc = "export"
    /\ output_file' = "formatted"
    /\ pc' = "exit"
    /\ exit_code' = 0
    /\ UNCHANGED <<input_file, json_data, items, item_idx, high_order_texts,
                   reasonings, hot_idx, hot, lot_idx, rows, used_publication_ids,
                   processed_data, error>>

Next ==
    \/ load_json_data
    \/ BeginProcess
    \/ NextItem
    \/ NextHot
    \/ NextLot
    \/ ReturnRows
    \/ create_excel_file

Spec == Init /\ [][Next]_vars

----------------------------------------------------------------------------
(* The document as the specification reads it *)

Doc == input_file.data

\* Root-shape resolution as specified: payload.results when payload is a
\* mapping and results a sequence, else a sequence as it is, else a mapping
\* as the only item, else no items at all.
SpecItems(d) ==
    IF /\ d.t = "dict"
       /\ "payload" \in DOMAIN d.v
       /\ d.v["payload"].t = "dict"
       /\ "results" \in DOMAIN d.v["payload"].v
       /\ d.v["payload"].v["results"].t = "list"
    THEN [ok |-> TRUE, items |-> d.v["payload"].v["results"].v]
    ELSE IF d.t = "list" THEN [ok |-> TRUE, items |-> d.v]
    ELSE IF d.t = "dict" THEN [ok |-> TRUE, items |-> <<d>>]
    ELSE [ok |-> FALSE, items |-> <<>>]

HotsOf(item) == Get(item, "high_order_text", L(<<>>))
ReasoningsOf(item) == Get(item, "reasonings", L(<<>>))
LotsOf(h) == Get(h, "low_order_texts", L(<<>>))

\* every item, high-order entry and low-order entry is a mapping and every
\* iterated field a sequence
WellFormedItems(its) ==
    \A a \in 1..Len(its) :
        /\ its[a].t = "dict"
        /\ ReasoningsOf(its[a]).t = "list"
        /\ LET hs == HotsOf(its[a]) IN
           /\ hs.t = "list"
           /\ \A b \in 1..Len(hs.v) :
                 /\ hs.v[b].t = "dict"
                 /\ LET ls == LotsOf(hs.v[b]) IN
                    /\ ls.t = "list"
                    /\ \A c \in 1..Len(ls.v) : ls.v[c].t = "dict"

ValidDocument ==
    /\ input_file.state = "json"
    /\ LET d == SpecItems(Doc) IN d.ok /\ WellFormedItems(d.items)

DocItems == SpecItems(Doc).items

\* some high_order_text or low_order_texts is present and not a sequence
HasNonSequence(its) ==
    \E a \in 1..Len(its) :
        /\ its[a].t = "dict"
        /\ \/ HotsOf(its[a]).t # "list"
           \/ \E b \in 1..Len(HotsOf(its[a]).v) :
                 /\ HotsOf(its[a]).v[b].t = "dict"
                 /\ LotsOf(HotsOf(its[a]).v[b]).t # "list"

RECURSIVE Flatten(_)
Flatten(qs) == IF Len(qs) = 0 THEN <<>> ELSE Head(qs) \o Flatten(Tail(qs))

\* The traversal order: <<a, b, 0>> is the b-th high-order entry of item a,
\* <<a, b, c>> its c-th low-order entry.
Traversal(its) ==
    Flatten([a \in 1..Len(its) |->
        Flatten([b \in 1..Len(HotsOf(its[a]).v) |->
            <<<<a, b, 0>>>> \o
            [c \in 1..Len(LotsOf(HotsOf(its[a]).v[b]).v) |-> <<a, b, c>>]])])

HotAt(its, pos) == HotsOf(its[pos[1]]).v[pos[2]]
LotAt(its, pos) == LotsOf(HotAt(its, pos)).v[pos[3]]
PubAt(its, pos) == Get(LotAt(its, pos), "publication_ID", S(""))
TagAt(its, pos) ==
    IF "tag" \in DOMAIN LotAt(its, pos).v THEN LotAt(its, pos).v["tag"]
    ELSE S("INCON-" \o PyStr(Get(HotAt(its, pos), "paragraph_ID", S(""))))
IsLow(pos) == pos[3] > 0
IsConfAt(its, pos) == IsLow(pos) /\ StartsWith(PyStr(TagAt(its, pos)), "CONF-")

\* a publication_ID that is not empty
NonEmpty(x) ==
    ~(x.t = "null" \/ (x.t = "str" /\ x.v = "") \/ (x.t = "num" /\ x.v = "0"))

\* the reasoning of the first entry of rs, in declaration order, whose
\* publication_ID equals pub; None when there is none
FirstMatch(rs, pub) ==
    LET hits == {n \in 1..Len(rs) :
                    PyEq(Get(rs[n], "publication_ID", None), pub)}
    IN  IF hits = {} THEN None
        ELSE Get(rs[CHOOSE n \in hits : \A m \in hits : n <= m], "reasoning", None)

ItemReasoning(its, pos) == FirstMatch(ReasoningsOf(its[pos[1]]).v, PubAt(its, pos))

\* the flattening is under way or over, with the rows in `rows`
Flattening ==
    pc \in {"items", "hots", "lots", "return", "export"}
    \/ (pc = "exit" /\ error = "none")

\* the traversal is over
Completed == pc \in {"return", "export"} \/ (pc = "exit" /\ error = "none")

\* process_json_data has returned its rows to main
Returned == pc = "export" \/ (pc = "exit" /\ error = "none")

----------------------------------------------------------------------------
(* Row order and row count *)

\* row is the row of the entry at pos, its reasoning apart
RowOf(its, pos, row) ==
    IF ~IsLow(pos)
    THEN /\ row["Text Type"] = S("High-Order Text")
         /\ row["Paragraph ID"] = Get(HotAt(its, pos), "paragraph_ID", S(""))
         /\ row["Task Text"] = Get(HotAt(its, pos), "text", S(""))
         /\ row["Similarity Score"] = S("N/A")
         /\ row["Reasonings"] = S("")
    ELSE /\ row["Tag"] = TagAt(its, pos)
         /\ \/ /\ IsConfAt(its, pos)
               /\ row["Text Type"] = None
            \/ /\ ~IsConfAt(its, pos)
               /\ row["Text Type"] = S("Low-Order Text")
               /\ row["Paragraph ID"] = Get(LotAt(its, pos), "paragraph_ID", S(""))
               /\ row["Task Text"] = Get(LotAt(its, pos), "text", S(""))

\* C3: at every moment of the traversal of a valid document the rows emitted
\* so far are the rows of the first entries of the traversal order (items in
\* document order, their high-order entries in order, each high-order row
\* followed by the rows of its low-order entries in order), one row per
\* entry, the last row being the row of the entry just visited; at the end
\* every entry has its row.
C3_RowsFollowTraversal ==
    (Flattening /\ ValidDocument) =>
        \A its \in {DocItems} : \A trav \in {Traversal(its)} :
            /\ Len(rows) <= Len(trav)
            /\ \A n \in 1..Len(rows) : RowOf(its, trav[n], rows[n])
            /\ pc = "lots" =>
                  /\ Len(rows) > 0
                  /\ trav[Len(rows)] = <<item_idx - 1, hot_idx - 1, lot_idx - 1>>
            /\ Completed => Len(rows) = Len(trav)

\* a finished traversal of two items in which a high-order row follows the
\* low-order rows of the entry before it
C3_Witness ==
    /\ ValidDocument
    /\ Completed
    /\ Len(DocItems) = 2
    /\ LET trav == Traversal(DocItems) IN
       \E n \in 2..Len(rows) :
          /\ ~IsLow(trav[n])
          /\ IsLow(trav[n - 1])
          /\ rows[n]["Text Type"] = S("High-Order Text")
          /\ rows[n - 1]["Text Type"] = S("Low-Order Text")

RECURSIVE NumHighOrder(_)
NumHighOrder(its) ==
    IF Len(its) = 0 THEN 0
    ELSE Len(HotsOf(Head(its)).v) + NumHighOrder(Tail(its))

RECURSIVE NumLowIn(_)
NumLowIn(hs) ==
    IF Len(hs) = 0 THEN 0 ELSE Len(LotsOf(Head(hs)).v) + NumLowIn(Tail(hs))

RECURSIVE NumLowOrder(_)
NumLowOrder(its) ==
    IF Len(its) = 0 THEN 0
    ELSE NumLowIn(HotsOf(Head(its)).v) + NumLowOrder(Tail(its))

\* C4: the rows returned for a valid document are as many as its high-order
\* entries plus its low-order entries, CONF- entries included.
C4_RowCount ==
    (Returned /\ ValidDocument) =>
        Len(processed_data) = NumHighOrder(DocItems) + NumLowOrder(DocItems)

\* rows returned for a document with a CONF- entry and another low-order entry
C4_Witness ==
    /\ ValidDocument
    /\ Returned
    /\ NumLowOrder(DocItems) >= 2
    /\ LET trav == Traversal(DocItems) IN
       \E n \in 1..Len(trav) : IsConfAt(DocItems, trav[n])

----------------------------------------------------------------------------
(* Reasoning assignment *)

\* the low-order entries at m and n have equal publication_IDs
SamePub(its, trav, m, n) ==
    /\ IsLow(trav[m])
    /\ IsLow(trav[n])
    /\ PyEq(PubAt(its, trav[m]), PubAt(its, trav[n]))

\* no low-order entry before n, in the whole traversal, has the
\* publication_ID of the one at n
FirstSeen(its, trav, n) == \A m \in 1..(n - 1) : ~SamePub(its, trav, m, n)

\* no low-order entry before n in the item of n has its publication_ID
FirstInItem(its, trav, n) ==
    \A m \in 1..(n - 1) : ~(trav[m][1] = trav[n][1] /\ SamePub(its, trav, m, n))

\* no low-order entry before n in the high-order entry of n has its
\* publication_ID
FirstInHot(its, trav, n) ==
    \A m \in 1..(n - 1) :
        ~(trav[m][1] = trav[n][1] /\ trav[m][2] = trav[n][2]
          /\ SamePub(its, trav, m, n))

\* C1 as stated: the used set is empty at the start of every item, so the
\* first low-order entry of an item with a given non-empty publication_ID has
\* the reasoning resolved from the reasonings of that item.
C1_UsedSetPerItem ==
    (Flattening /\ ValidDocument) =>
        \A its \in {DocItems} : \A trav \in {Traversal(its)} :
            \A n \in 1..Len(rows) :
                (/\ IsLow(trav[n])
                 /\ NonEmpty(PubAt(its, trav[n]))
                 /\ FirstInItem(its, trav, n))
                => rows[n]["Reasonings"] = ItemReasoning(its, trav[n])

\* C2: within one item, a low-order entry that follows a low-order entry with
\* the same publication_ID, in the same or another high-order entry, has no
\* reasoning; so at most one row per publication_ID and item carries a
\* reasoning, and it is the row of the first such entry.
C2_OncePerItem ==
    (Flattening /\ ValidDocument) =>
        \A its \in {DocItems} : \A trav \in {Traversal(its)} :
            \A n \in 1..Len(rows) :
                (IsLow(trav[n]) /\ ~FirstInItem(its, trav, n))
                => rows[n]["Reasonings"] = None

\* two high-order entries of one item hold low-order entries with the same
\* publication_ID; the row of the first carries the reasoning, the row of
\* the second is emitted
C2_Witness ==
    /\ ValidDocument
    /\ Flattening
    /\ LET its == DocItems
           trav == Traversal(its)
       IN  \E m, n \in 1..Len(rows) :
              /\ m < n
              /\ SamePub(its, trav, m, n)
              /\ trav[m][1] = trav[n][1]
              /\ trav[m][2] # trav[n][2]
              /\ rows[m]["Reasonings"] = S("because")
              /\ rows[n]["Reasonings"] = None

\* what the row of the low-order entry at n holds as its reasoning: the first
\* match among the reasonings of its item when its publication_ID is not
\* empty and occurs for the first time in the traversal, else None
Resolved(its, trav, n) ==
    IF NonEmpty(PubAt(its, trav[n])) /\ FirstSeen(its, trav, n)
    THEN ItemReasoning(its, trav[n])
    ELSE None

\* C5: the row of a low-order entry whose tag starts with CONF- has Text Type,
\* Paragraph ID, Publication ID, Task Text and Similarity Score None, the tag
\* as Tag and the resolved reasoning as Reasonings; its publication_ID is
\* used from then on, and a later entry of the item with the same
\* publication_ID has no reasoning.
C5_ConfRow ==
    (Flattening /\ ValidDocument) =>
        \A its \in {DocItems} : \A trav \in {Traversal(its)} :
            \A n \in 1..Len(rows) :
                IsConfAt(its, trav[n]) =>
                    /\ \A c \in Columns \ {"Tag", "Reasonings"} : rows[n][c] = None
                    /\ rows[n]["Tag"] = TagAt(its, trav[n])
                    /\ rows[n]["Reasonings"] = Resolved(its, trav, n)
                    /\ (pc \in {"items", "hots", "lots"}
                        /\ NonEmpty(PubAt(its, trav[n])))
                       => PubAt(its, trav[n]) \in used_publication_ids
                    /\ \A k \in (n + 1)..Len(rows) :
                          (trav[k][1] = trav[n][1] /\ SamePub(its, trav, n, k))
                          => rows[k]["Reasonings"] = None

\* a CONF- row that carries a reasoning, followed in its item by the row of
\* an entry that is not CONF- and has the same publication_ID
C5_Witness ==
    /\ ValidDocument
    /\ Flattening
    /\ LET its == DocItems
           trav == Traversal(its)
       IN  \E n, k \in 1..Len(rows) :
              /\ n < k
              /\ IsConfAt(its, trav[n])
              /\ rows[n]["Reasonings"] = S("because")
              /\ rows[n]["Paragraph ID"] = None
              /\ SamePub(its, trav, n, k)
              /\ ~IsConfAt(its, trav[k])
              /\ rows[k]["Text Type"] = S("Low-Order Text")

\* the publication_IDs of the low-order entries among the first n entries
\* of the traversal that satisfy keep
PubsSoFar(its, trav, n, keep(_)) ==
    {PubAt(its, trav[m]) : m \in {k \in 1..n : IsLow(trav[k]) /\ keep(PubAt(its, trav[k]))}}

AnyPub(x) == TRUE

\* C10 as stated: a low-order entry whose publication_ID occurs for the first
\* time has the reasoning of the first reasoning entry with an equal
\* publication_ID (None when there is none), the publication_ID is used from
\* then on, and every later entry with it has no reasoning.
C10_FirstMatch ==
    (pc \in {"items", "hots", "lots"} /\ ValidDocument) =>
        \A its \in {DocItems} : \A trav \in {Traversal(its)} :
            /\ \A n \in 1..Len(rows) :
                  IsLow(trav[n]) =>
                      rows[n]["Reasonings"] =
                          IF FirstSeen(its, trav, n)
                          THEN ItemReasoning(its, trav[n]) ELSE None
            /\ used_publication_ids = PubsSoFar(its, trav, Len(rows), AnyPub)

\* C10 amended: the same for a publication_ID that is not empty; an entry
\* with an empty publication_ID has no reasoning and the empty
\* publication_ID is never used.
C10_FirstMatchNonEmpty ==
    (pc \in {"items", "hots", "lots"} /\ ValidDocument) =>
        \A its \in {DocItems} : \A trav \in {Traversal(its)} :
            /\ \A n \in 1..Len(rows) :
                  IsLow(trav[n]) => rows[n]["Reasonings"] = Resolved(its, trav, n)
            /\ used_publication_ids = PubsSoFar(its, trav, Len(rows), NonEmpty)

\* an entry with a new publication_ID whose item has two reasoning entries
\* for it with different texts: its row has the text of the first, and the
\* publication_ID is used
C10_Witness ==
    /\ ValidDocument
    /\ pc = "lots"
    /\ LET its == DocItems
           trav == Traversal(its)
       IN  \E n \in 1..Len(rows) :
              /\ IsLow(trav[n])
              /\ FirstSeen(its, trav, n)
              /\ PubAt(its, trav[n]) \in used_publication_ids
              /\ LET rs == ReasoningsOf(its[trav[n][1]]).v IN
                 /\ Len(rs) = 2
                 /\ PyEq(Get(rs[1], "publication_ID", None), PubAt(its, trav[n]))
                 /\ PyEq(Get(rs[2], "publication_ID", None), PubAt(its, trav[n]))
                 /\ rs[1].v["reasoning"] # rs[2].v["reasoning"]
                 /\ rows[n]["Reasonings"] = rs[1].v["reasoning"]

\* C9 as stated (Policy A): of two low-order entries of one high-order entry
\* with the same non-empty publication_ID that one reasoning entry of the
\* item matches, the first has that reasoning and the second the empty
\* string, and both have the tag INCON- + paragraph_ID of the high-order
\* entry.
C9_PolicyA ==
    (Flattening /\ ValidDocument) =>
        \A its \in {DocItems} : \A trav \in {Traversal(its)} :
            \A m, n \in 1..Len(rows) :
                (/\ m < n
                 /\ SamePub(its, trav, m, n)
                 /\ trav[m][1] = trav[n][1]
                 /\ trav[m][2] = trav[n][2]
                 /\ NonEmpty(PubAt(its, trav[m]))
                 /\ FirstInHot(its, trav, m)
                 /\ ItemReasoning(its, trav[m]) # None)
                => /\ rows[m]["Reasonings"] = ItemReasoning(its, trav[m])
                   /\ rows[n]["Reasonings"] = S("")
                   /\ rows[m]["Tag"] = S("INCON-" \o
                         PyStr(Get(HotAt(its, trav[m]), "paragraph_ID", S(""))))
                   /\ rows[n]["Tag"] = rows[m]["Tag"]

----------------------------------------------------------------------------
(* Root shapes and errors *)

\* C6 as stated: once the root is resolved, the items are those of the
\* specified resolution, and a root that is neither a mapping nor a sequence
\* ends the run with the unsupported-structure error.
C6_RootShape ==
    (input_file.state = "json" /\ pc \notin {"load", "process"}) =>
        IF SpecItems(Doc).ok
        THEN /\ items.t = "list"
             /\ items.v = SpecItems(Doc).items
        ELSE /\ pc = "exit"
             /\ error = "UnsupportedStructure"
             /\ exit_code = 1

\* the root is neither a mapping nor a sequence
UnsupportedRoot == input_file.state = "json" /\ ~SpecItems(Doc).ok

C8_MalformedFailsFast ==
    (/\ input_file.state = "json"
     /\ SpecItems(Doc).ok
     /\ HasNonSequence(SpecItems(Doc).items))
    => ~Completed

====
